---------------------------- MODULE Spec2Model ----------------------------
(***************************************************************************)
(* browser-pilot: a model of the command correlation, the reconnection     *)
(* supervisor and the navigation stability detector.                       *)
(*                                                                         *)
(*   SpecBridge      ExtensionBridge (src/unnamed/part_011): pending       *)
(*                   commands, navigation events, the settle timer and     *)
(*                   buildNavigationResult.                                *)
(*   FairSpecBridge  SpecBridge with armed timers firing.                  *)
(*   SpecSupervisor  ConsoleLogCollector (service-worker.js, native        *)
(*                   messaging part): the native port, the heartbeat, the  *)
(*                   retry timers and forceReconnect.                      *)
(*   SpecClient      BrowserPilotClient (browser-pilot-client.ts) with the *)
(*                   native host broker (src/unnamed/part_002) and the     *)
(*                   extension's command handler behind it.                *)
(*   FairSpecClient  SpecClient with armed timers firing.                  *)
(*   SpecClientSockets  the client's runs with two sockets alive at once. *)
(*   SpecFraming     readNativeMessages (src/unnamed/part_002): the        *)
(*                   length-prefixed frames read from stdin in chunks.     *)
(*   SpecRouter      the broker's client registry, its routing between     *)
(*                   several clients and the extension, and its shutdown.  *)
(*                                                                         *)
(* Each specification moves its own variables and leaves the others alone. *)
(***************************************************************************)
EXTENDS Integers, Sequences, FiniteSets, TLC

VARIABLES
    \* ---- ExtensionBridge (part_011) ----
    extensionClients,   \* number of extension sockets in this.extensionClients
    bPending,           \* keys of this.pendingCommands (each with its timer)
    bTimers,            \* command ids whose timeout timer is armed
    activeNavigations,  \* keys of this.activeNavigations
    navState,           \* the NavigationState object of each navigation id
    stabilityTimer,     \* navigation ids whose 2 s settle timer is armed
    navPhase,           \* where the peer is with each navigate command
    peerInbox,          \* commands the peer has received and not yet answered
    bSettled,           \* per command: the calls made to its resolve/reject
    navUrl,             \* the url parameter of each navigate command
    listeners,          \* navigations whose tab listener the peer has registered
    nEvents,            \* navigation events delivered so far
    timerArms,          \* how many times setTimeout armed a navigation's settle timer
    \* ---- ConsoleLogCollector, native messaging (service-worker.js) ----
    nativePort,         \* this.nativePort: 0 is null, else a port
    openPorts,          \* native ports that are open, held or not
    established,        \* open ports whose native host process runs
    isConnected,        \* this.isConnected
    reconnectAttempts,  \* this.reconnectAttempts
    retryTimers,        \* armed setTimeout(connectToNativeHost) callbacks
    xPending,           \* keys of this.pendingCommands (pings), timers armed
    failDelays,         \* retry delays scheduled since the last working connection
    frAwaiting,         \* forceReconnect calls awaiting detachAllDebuggers
    pingFailed,         \* the step just taken ran the catch block of a ping that timed out
    pingIntervals,      \* number of setInterval timers that call pingNativeHost
    pingIntervalLive,   \* the timer named by this.pingInterval is still running
    \* ---- BrowserPilotClient (browser-pilot-client.ts) ----
    ws,                 \* this.ws: 0 is null, else a socket
    sockState,          \* readyState of every WebSocket the client created
    connected,          \* this.connected
    cReconnectAttempts, \* this.reconnectAttempts
    reconnectTimer,     \* this.reconnectTimer is armed
    connTimers,         \* sockets whose connectionTimeout timer is armed
    cPending,           \* keys of this.pendingCommands
    cTimers,            \* commands whose timeout timer is armed
    cmdPhase,           \* where each sendCommand call is
    cmdAwait,           \* the socket whose connect() a sendCommand call awaits
    cmdKind,            \* what each sendCommand call asks for
    cSettled,           \* per command: the calls made to its resolve/reject
    lastHandled,        \* the frame handleMessage has just handled, if any
    \* ---- native host broker (part_002) and the extension behind it ----
    mpcClients,         \* keys of mpcClients (a client id is its socket)
    extensionConnected, \* extensionConnected
    peerState,          \* the extension's native port: "starting", "up", "gone"
    toBroker,           \* frames from the client on their way to the broker
    toPeer,             \* commands the broker wrote to the extension
    toClient,           \* frames from the broker on their way to the client
    \* ---- readNativeMessages (part_002) ----
    wire,               \* bytes written to the host's stdin and not yet read
    frames,             \* the bodies of the frames written so far
    buffer,             \* buffer
    expectedLength,     \* expectedLength
    delivered,          \* the messages handed to handleExtensionMessage
    splitSeen,          \* a chunk has ended inside a frame
    multiSeen,          \* a chunk has completed two or more messages
    \* ---- the broker's registry and router with several clients (part_002) ----
    readyState,         \* ws.readyState of each connection the server accepted
    shuttingDown,       \* shuttingDown
    exitTimer,          \* the 500 ms timer of gracefulShutdown is armed
    exited,             \* process.exit has run
    handled,            \* the handler that ran last, with its input
    sentToClients,      \* what that handler passed to ws.send, with the receiver
    sentToExtension,    \* what that handler passed to sendToExtension, in order
    shutdownNotice      \* the registry and the sends of gracefulShutdown

bridgeVars == <<extensionClients, bPending, bTimers, activeNavigations, navState,
                stabilityTimer, navPhase, peerInbox, bSettled, navUrl, listeners,
                nEvents, timerArms>>

supVars == <<nativePort, openPorts, established, isConnected, reconnectAttempts,
             retryTimers, xPending, failDelays, frAwaiting, pingFailed,
             pingIntervals, pingIntervalLive>>

clientVars == <<ws, sockState, connected, cReconnectAttempts, reconnectTimer,
                connTimers, cPending, cTimers, cmdPhase, cmdAwait, cmdKind, cSettled,
                lastHandled>>

brokerVars == <<mpcClients, extensionConnected, peerState, toBroker, toPeer,
                toClient>>

framingVars == <<wire, frames, buffer, expectedLength, delivered, splitSeen,
                 multiSeen>>

routerVars == <<readyState, shuttingDown, exitTimer, exited, handled,
                sentToClients, sentToExtension, shutdownNotice>>

vars == <<bridgeVars, supVars, clientVars, brokerVars, framingVars, routerVars>>

\* what the actions of one component leave alone
notBridge == <<supVars, clientVars, brokerVars, framingVars, routerVars>>
notSupervisor == <<bridgeVars, clientVars, brokerVars, framingVars, routerVars>>
notClient == <<bridgeVars, supVars, framingVars, routerVars>>
notFraming == <<bridgeVars, supVars, clientVars, brokerVars, routerVars>>
notRouter == <<bridgeVars, supVars, clientVars, framingVars, toBroker, toPeer,
               toClient>>

-----------------------------------------------------------------------------
(* Bounds of the model *)

\* navigation events (after navigation_started) the peer emits in a run
MaxEvents == 3
\* native ports open at the same time
MaxPorts == 2
\* reconnect timers armed at the same time
MaxRetryTimers == 2
\* heartbeat pings in flight at the same time
MaxPings == 1
\* length of the recorded history of retry delays
MaxHistory == 6
\* forceReconnect calls suspended at the same time
MaxForceReconnects == 2
\* heartbeat interval timers running at the same time
MaxIntervals == 2
\* sendCommand calls made on a BrowserPilotClient in a run
MaxCmds == 2
\* WebSockets of the client that exist at the same time
MaxSockets == 2
\* sendCommand calls made plus socket numbers used by one client in a run
MaxLoad == 3
\* sendCommand calls plus socket numbers in a run of SpecClientSockets
MaxSocketLoad == 4
\* frames the extension writes to the host in a run
MaxFrames == 3
\* bytes in the body of a frame
MaxBody == 2
\* bytes one read of stdin returns
MaxChunk == 12
MaxClients == 3

-----------------------------------------------------------------------------
(* JavaScript values *)

Undefined == "undefined"
Null == [null |-> TRUE]

\* obj?.f : undefined for null and for an object without the property
JsField(obj, f) == IF f \in DOMAIN obj THEN obj[f] ELSE Undefined

\* x || y on strings: undefined (and the empty string) are falsy
JsOr(x, y) == IF x # Undefined THEN x ELSE y

Last(s) == s[Len(s)]

Urls == {"A", "B", "C"}

\* URLs are opaque tokens compared only for equality: every navigation is a
\* renaming of one that requests "A"
RequestUrls == {"A"}

-----------------------------------------------------------------------------
(* ExtensionBridge: identifiers.  randomUUID() gives every command a fresh  *)
(* id; the model names the ids by what they are for.                        *)

NavIds == {1}

Nav(n)    == <<"nav", n>>      \* the caller's navigate_to_url command
Query(n)  == <<"query", n>>    \* get_current_url sent at the settle deadline
CleanT(n) == <<"cleanT", n>>   \* cleanup_navigation sent after the settle step
CleanE(n) == <<"cleanE", n>>   \* cleanup_navigation sent after an error event

BridgeIds == {Nav(n) : n \in NavIds} \cup {Query(n) : n \in NavIds}
             \cup {CleanT(n) : n \in NavIds} \cup {CleanE(n) : n \in NavIds}

EventKinds == {"url_changed", "status_changed"}

NavEvent(kind, url) == [event |-> kind, url |-> url]

NoNavigation == [requestedUrl |-> Undefined, events |-> <<>>,
                 lastStableUrl |-> Undefined]

-----------------------------------------------------------------------------
(* ExtensionBridge.buildNavigationResult *)

\* variant: the loop without the comparison with the chain's last element
RECURSIVE PushUrlEvents_NoCollapse(_, _)
PushUrlEvents_NoCollapse(chain, events) ==
    IF events = <<>> THEN chain
    ELSE LET e == Head(events)
         IN  IF e.event = "url_changed" /\ e.url # Undefined
             THEN PushUrlEvents_NoCollapse(Append(chain, e.url), Tail(events))
             ELSE PushUrlEvents_NoCollapse(chain, Tail(events))

\* the loop over urlEvents: push a URL that differs from the chain's last
RECURSIVE PushUrlEvents(_, _)
PushUrlEvents(chain, events) ==
    IF events = <<>> THEN chain
    ELSE LET e == Head(events)
         IN  IF e.event = "url_changed" /\ e.url # Undefined /\ e.url # Last(chain)
             THEN PushUrlEvents(Append(chain, e.url), Tail(events))
             ELSE PushUrlEvents(chain, Tail(events))

\* navigationState.events.filter(e => e.url).pop()?.url
LastEventUrl(events) ==
    LET withUrl == SelectSeq(events, LAMBDA e : e.url # Undefined)
    IN  IF withUrl = <<>> THEN Undefined ELSE Last(withUrl).url

FinalUrl(state, currentState) ==
    LET first == JsOr(JsField(currentState, "url"), state.lastStableUrl)
    IN  IF first # Undefined THEN first
        ELSE JsOr(LastEventUrl(state.events), state.requestedUrl)

\* variant: the result without "ensure final URL is in redirect chain"
buildNavigationResult_NoFinalPush(state, currentState) ==
    LET chain    == PushUrlEvents(<<state.requestedUrl>>, state.events)
        finalUrl == FinalUrl(state, currentState)
    IN  [success |-> TRUE,
         data |-> [requestedUrl  |-> state.requestedUrl,
                   finalUrl      |-> finalUrl,
                   redirectChain |-> chain,
                   redirectCount |-> Len(chain) - 1,
                   currentState  |-> currentState]]

buildNavigationResult(state, currentState) ==
    LET chain0   == PushUrlEvents(<<state.requestedUrl>>, state.events)
        finalUrl == FinalUrl(state, currentState)
        chain    == IF finalUrl # Undefined /\ finalUrl # Last(chain0)
                    THEN Append(chain0, finalUrl) ELSE chain0
    IN  [success |-> TRUE,
         data |-> [requestedUrl  |-> state.requestedUrl,
                   finalUrl      |-> finalUrl,
                   redirectChain |-> chain,
                   redirectCount |-> Len(chain) - 1,
                   currentState  |-> currentState]]

-----------------------------------------------------------------------------
(* The peer's answers (service-worker.js, handleCommand): the result of a   *)
(* command is wrapped as {success: true, data: result}, a failure as        *)
(* {success: false, error}.                                                 *)

CurrentUrlResult(url) == [url |-> url]
SuccessResponse(result) == [success |-> TRUE, data |-> result]
ErrorResponse(msg) == [success |-> FALSE, error |-> msg]

-----------------------------------------------------------------------------
(* ExtensionBridge: the pending-command bookkeeping, threaded through one   *)
(* handler as a record st = [pending, timers, inbox, settled].              *)

BridgeNow == [pending |-> bPending, timers |-> bTimers, inbox |-> peerInbox,
              settled |-> bSettled]

Settle(by, result) == [by |-> by, result |-> result]

\* sendCommand: no extension client rejects at once; otherwise the entry and
\* its timer are recorded and the command goes to the extension
BridgeSend(st, id) ==
    IF extensionClients = 0
    THEN [st EXCEPT !.settled[id] = Append(@, Settle("no_extension", Null))]
    ELSE [st EXCEPT !.pending = @ \cup {id}, !.timers = @ \cup {id},
                    !.inbox = @ \cup {id}]

\* variant: resolve is called without looking the entry up
BridgeResolve_Always(st, id, by, result) ==
    [st EXCEPT !.pending = @ \ {id}, !.timers = @ \ {id},
               !.settled[id] = Append(@, Settle(by, result))]

\* const pending = this.pendingCommands.get(id); if (pending) { clearTimeout;
\* delete; pending.resolve(result) }
BridgeResolve(st, id, by, result) ==
    IF id \in st.pending
    THEN [st EXCEPT !.pending = @ \ {id}, !.timers = @ \ {id},
                    !.settled[id] = Append(@, Settle(by, result))]
    ELSE st

BridgeCommit(st) ==
    /\ bPending' = st.pending
    /\ bTimers' = st.timers
    /\ peerInbox' = st.inbox
    /\ bSettled' = st.settled

-----------------------------------------------------------------------------
(* State after construction *)

Init ==
    /\ extensionClients = 0
    /\ bPending = {}
    /\ bTimers = {}
    /\ activeNavigations = {}
    /\ navState = [n \in NavIds |-> NoNavigation]
    /\ stabilityTimer = {}
    /\ navPhase = [n \in NavIds |-> "unsent"]
    /\ peerInbox = {}
    /\ bSettled = [id \in BridgeIds |-> <<>>]
    /\ navUrl = [n \in NavIds |-> Undefined]
    /\ listeners = {}
    /\ nEvents = 0
    /\ timerArms = [n \in NavIds |-> 0]
    \* ConsoleLogCollector: the constructor has called connectToNativeHost
    /\ nativePort = 1
    /\ openPorts = {1}
    /\ established = {}
    /\ isConnected = TRUE
    /\ reconnectAttempts = 0
    /\ retryTimers = 0
    /\ xPending = {}
    /\ failDelays = <<>>
    /\ frAwaiting = 0
    /\ pingFailed = FALSE
    /\ pingIntervals = 1
    /\ pingIntervalLive = TRUE
    \* BrowserPilotClient after its constructor
    /\ ws = 0
    /\ sockState = [s \in 1..MaxSockets |-> "unused"]
    /\ connected = FALSE
    /\ cReconnectAttempts = 0
    /\ reconnectTimer = FALSE
    /\ connTimers = {}
    /\ cPending = {}
    /\ cTimers = {}
    /\ cmdPhase = [c \in 1..MaxCmds |-> "idle"]
    /\ cmdAwait = [c \in 1..MaxCmds |-> 0]
    /\ cmdKind = [c \in 1..MaxCmds |-> "none"]
    /\ cSettled = [c \in 1..MaxCmds |-> <<>>]
    /\ lastHandled = [type |-> "none", id |-> 0, pending |-> {}]
    \* the native host, just launched by the extension's connectNative
    /\ mpcClients = {}
    /\ extensionConnected = FALSE
    /\ peerState = "starting"
    /\ toBroker = {}
    /\ toPeer = {}
    /\ toClient = {}
    \* readNativeMessages has just been called
    /\ wire = <<>>
    /\ frames = <<>>
    /\ buffer = <<>>
    /\ expectedLength = 0
    /\ delivered = <<>>
    /\ splitSeen = FALSE
    /\ multiSeen = FALSE
    \* the WebSocket server has accepted no connection yet
    /\ readyState = [c \in 1..MaxClients |-> "unused"]
    /\ shuttingDown = FALSE
    /\ exitTimer = FALSE
    /\ exited = FALSE
    /\ handled = [op |-> "main"]
    /\ sentToClients = {}
    /\ sentToExtension = <<>>
    /\ shutdownNotice = [sent |-> FALSE]

\* wsServer 'connection' + first message: the extension's socket joins
\* extensionClients (one browser, one extension socket)
ExtensionConnects ==
    /\ UNCHANGED notBridge
    /\ extensionClients = 0
    /\ extensionClients' = 1
    /\ UNCHANGED <<bPending, bTimers, activeNavigations, navState, stabilityTimer,
                   navPhase, peerInbox, bSettled, navUrl, listeners, nEvents, timerArms>>

\* ws 'close' / 'error': the socket leaves the sets; pending commands stay
ExtensionDisconnects ==
    /\ UNCHANGED notBridge
    /\ extensionClients > 0
    /\ extensionClients' = extensionClients - 1
    /\ UNCHANGED <<bPending, bTimers, activeNavigations, navState, stabilityTimer,
                   navPhase, peerInbox, bSettled, navUrl, listeners, nEvents, timerArms>>

\* the caller: sendCommand('navigate_to_url', {url})
SendNavigate(n, url) ==
    /\ UNCHANGED notBridge
    /\ navPhase[n] = "unsent"
    /\ BridgeCommit([BridgeSend(BridgeNow, Nav(n)) EXCEPT !.inbox = peerInbox])
    /\ navPhase' = [navPhase EXCEPT ![n] = IF extensionClients = 0 THEN "rejected"
                                           ELSE "sent"]
    /\ navUrl' = [navUrl EXCEPT ![n] = url]
    /\ UNCHANGED <<extensionClients, activeNavigations, navState, stabilityTimer,
                   listeners, nEvents, timerArms>>

\* variant: completeNavigation that leaves the pending command alone
completeNavigation_NoResolve(st, n, error) ==
    IF n \notin activeNavigations THEN st
    ELSE BridgeSend(st, CleanE(n))

\* completeNavigation(commandId, false, error): the error path
completeNavigation(st, n, error) ==
    IF n \notin activeNavigations THEN st
    ELSE BridgeSend(BridgeResolve(st, Nav(n), "navigation_error",
                                  [success |-> FALSE, error |-> error]),
                    CleanE(n))

\* variant: a debounce timer, set again by every event but an error
ArmsTimer_Restart(known, ev) == ev.event # "navigation_error"

\* setTimeout(..., 2000) is called where the navigation state is created
ArmsTimer(known, ev) == ~known /\ ev.event = "navigation_started"

\* variant: any event for an id without state creates the state
CreatesState_AnyEvent(known, ev) == ~known

\* if (!this.activeNavigations.has(commandId)) {
\*   if (eventData.event === 'navigation_started') { ...set(commandId, ...) }
CreatesState(known, ev) == ~known /\ ev.event = "navigation_started"

\* handleNavigationEvent for an event of navigation n
handleNavigationEvent(n, ev) ==
    LET known   == n \in activeNavigations
        starts  == CreatesState(known, ev)
        created == [requestedUrl |-> ev.requestedUrl, events |-> <<>>,
                    lastStableUrl |-> Undefined]
        before  == IF starts THEN created ELSE navState[n]
        logged  == [before EXCEPT
                      !.events = Append(@, NavEvent(ev.event, ev.url)),
                      !.lastStableUrl =
                          IF ev.event = "url_changed" /\ ev.url # Undefined
                          THEN ev.url ELSE @]
        isError == ev.event = "navigation_error"
    IN  IF ~known /\ ~starts
        THEN \* an event without navigation_started is dropped
             UNCHANGED <<bPending, bTimers, activeNavigations, navState,
                         stabilityTimer, peerInbox, bSettled, timerArms>>
        ELSE /\ navState' = [navState EXCEPT ![n] = logged]
             /\ activeNavigations' = IF isError THEN activeNavigations \ {n}
                                     ELSE activeNavigations \cup {n}
             /\ stabilityTimer' = IF isError THEN stabilityTimer \ {n}
                                  ELSE IF ArmsTimer(known, ev)
                                  THEN stabilityTimer \cup {n}
                                  ELSE stabilityTimer
             /\ timerArms' = IF ArmsTimer(known, ev)
                             THEN [timerArms EXCEPT ![n] = @ + 1]
                             ELSE timerArms
             /\ BridgeCommit(IF isError
                             THEN completeNavigation(BridgeNow, n, ev.error)
                             ELSE BridgeNow)

\* the peer's navigateToUrl sends navigation_started first
DeliverStarted(n) ==
    /\ UNCHANGED notBridge
    /\ extensionClients > 0
    /\ navPhase[n] = "sent"
    /\ handleNavigationEvent(n, [event |-> "navigation_started", url |-> Undefined,
                                 requestedUrl |-> navUrl[n], error |-> Undefined])
    /\ navPhase' = [navPhase EXCEPT ![n] = "started"]
    /\ listeners' = listeners \cup {n}
    /\ UNCHANGED <<extensionClients, navUrl, nEvents>>

\* a second navigation_started for a navigation that is in progress
DeliverStartedAgain(n) ==
    /\ UNCHANGED notBridge
    /\ extensionClients > 0
    /\ navPhase[n] \in {"started", "responded"}
    /\ n \in activeNavigations
    /\ nEvents < MaxEvents
    /\ handleNavigationEvent(n, [event |-> "navigation_started", url |-> Undefined,
                                 requestedUrl |-> navUrl[n], error |-> Undefined])
    /\ nEvents' = nEvents + 1
    /\ UNCHANGED <<extensionClients, navPhase, navUrl, listeners>>

\* the peer's tab listener reports a change while it is registered
DeliverNavEvent(n, kind, url) ==
    /\ UNCHANGED notBridge
    /\ extensionClients > 0
    /\ n \in listeners
    /\ nEvents < MaxEvents
    /\ handleNavigationEvent(n, [event |-> kind, url |-> url,
                                 requestedUrl |-> Undefined, error |-> Undefined])
    /\ nEvents' = nEvents + 1
    /\ UNCHANGED <<extensionClients, navPhase, navUrl, listeners>>

\* navigateToUrl's catch: navigation_error, before or after navigation_started
DeliverNavError(n) ==
    /\ UNCHANGED notBridge
    /\ extensionClients > 0
    /\ navPhase[n] \in {"sent", "started"}
    /\ handleNavigationEvent(n, [event |-> "navigation_error", url |-> Undefined,
                                 requestedUrl |-> Undefined, error |-> "nav failed"])
    /\ navPhase' = [navPhase EXCEPT ![n] = "errored"]
    /\ UNCHANGED <<extensionClients, navUrl, listeners, nEvents>>

\* the .then / .catch continuation of completeNavigationWithTimeout: build the
\* result, resolve the navigate command if it is still pending, send cleanup
SettleNavigation(st, n, by, currentState) ==
    BridgeSend(BridgeResolve(st, Nav(n), by,
                             buildNavigationResult(navState[n], currentState)),
               CleanT(n))

\* handleCommandResponse: a response for an active navigation is ignored,
\* any other resolves the pending entry with message.data (the log keeps the
\* data of the caller's commands only)
handleCommandResponse(st, id, data) ==
    IF id[1] = "nav" /\ id[2] \in activeNavigations THEN st
    ELSE BridgeResolve(st, id, "response", IF id[1] = "nav" THEN data ELSE Null)

\* the peer's command_response for the navigate command itself
DeliverNavResponse(n) ==
    /\ UNCHANGED notBridge
    /\ extensionClients > 0
    /\ navPhase[n] \in {"started", "errored"}
    /\ BridgeCommit(handleCommandResponse(BridgeNow, Nav(n),
           IF navPhase[n] = "started"
           THEN SuccessResponse([message |-> "Navigation initiated"])
           ELSE ErrorResponse("nav failed")))
    /\ navPhase' = [navPhase EXCEPT ![n] = "responded"]
    /\ UNCHANGED <<extensionClients, activeNavigations, navState, stabilityTimer,
                   navUrl, listeners, nEvents, timerArms>>

\* variant: the fallback of the settle step leaves the state in the map
DeleteNavigation_Keep(active, n) == active

\* this.activeNavigations.delete(commandId) in the .then and the .catch of
\* completeNavigationWithTimeout
DeleteNavigation(active, n) == active \ {n}

\* the 2 s timer set on navigation_started: completeNavigationWithTimeout
StabilityTimerFires(n) ==
    /\ UNCHANGED notBridge
    /\ n \in stabilityTimer
    /\ stabilityTimer' = stabilityTimer \ {n}
    /\ IF n \notin activeNavigations
       THEN UNCHANGED <<bPending, bTimers, peerInbox, bSettled, activeNavigations>>
       ELSE IF extensionClients = 0
       THEN \* get_current_url is rejected at once: the .catch fallback runs
            /\ BridgeCommit(SettleNavigation(BridgeSend(BridgeNow, Query(n)), n,
                                             "settle_fallback", Null))
            /\ activeNavigations' = DeleteNavigation(activeNavigations, n)
       ELSE /\ BridgeCommit(BridgeSend(BridgeNow, Query(n)))
            /\ UNCHANGED activeNavigations
    /\ UNCHANGED <<extensionClients, navState, navPhase, navUrl, listeners, nEvents, timerArms>>

PeerAnswerData(id) ==
    IF id[1] = "query"
    THEN {SuccessResponse(CurrentUrlResult(u)) : u \in Urls}
         \cup {ErrorResponse("No active tab")}
    ELSE {SuccessResponse([message |-> "Navigation listener cleaned up"])}

\* the extension answers get_current_url or cleanup_navigation
PeerAnswers(id, data) ==
    /\ UNCHANGED notBridge
    /\ extensionClients > 0
    /\ id \in peerInbox
    /\ LET n    == id[2]
           st0  == [BridgeNow EXCEPT !.inbox = @ \ {id}]
           st1  == handleCommandResponse(st0, id, data)
           cont == id[1] = "query" /\ id \in bPending
       IN  /\ BridgeCommit(IF cont THEN SettleNavigation(st1, n, "settle_query", data)
                           ELSE st1)
           /\ activeNavigations' = IF cont THEN DeleteNavigation(activeNavigations, n)
                                   ELSE activeNavigations
           /\ listeners' = IF id[1] \in {"cleanT", "cleanE"} THEN listeners \ {n}
                           ELSE listeners
    /\ UNCHANGED <<extensionClients, navState, stabilityTimer, navPhase, navUrl,
                   nEvents, timerArms>>

\* a command's timeout: delete the entry and reject; for get_current_url the
\* .catch fallback of completeNavigationWithTimeout follows
CommandTimeout(id) ==
    /\ UNCHANGED notBridge
    /\ id \in bTimers
    /\ LET n   == id[2]
           st1 == [BridgeNow EXCEPT !.pending = @ \ {id}, !.timers = @ \ {id},
                      !.settled[id] = Append(@, Settle("timeout", Null))]
       IN  /\ BridgeCommit(IF id[1] = "query"
                           THEN SettleNavigation(st1, n, "settle_fallback", Null)
                           ELSE st1)
           /\ activeNavigations' = IF id[1] = "query"
                                   THEN DeleteNavigation(activeNavigations, n)
                                   ELSE activeNavigations
    /\ UNCHANGED <<extensionClients, navState, stabilityTimer, navPhase, navUrl,
                   listeners, nEvents, timerArms>>

NextBridge ==
    \/ ExtensionConnects
    \/ ExtensionDisconnects
    \/ \E n \in NavIds, url \in RequestUrls : SendNavigate(n, url)
    \/ \E n \in NavIds : DeliverStarted(n)
    \/ \E n \in NavIds : DeliverStartedAgain(n)
    \/ \E n \in NavIds, kind \in EventKinds, url \in Urls : DeliverNavEvent(n, kind, url)
    \/ \E n \in NavIds : DeliverNavError(n)
    \/ \E n \in NavIds : DeliverNavResponse(n)
    \/ \E n \in NavIds : StabilityTimerFires(n)
    \/ \E id \in BridgeIds : \E data \in PeerAnswerData(id) : PeerAnswers(id, data)
    \/ \E id \in BridgeIds : CommandTimeout(id)

SpecBridge == Init /\ [][NextBridge]_vars

\* Timers that are armed fire: the 2 s settle timer of a navigation unless it
\* is cleared, and the 1 s timeout of get_current_url unless the answer comes.
BridgeTimersFire ==
    \A n \in NavIds : /\ WF_vars(StabilityTimerFires(n))
                      /\ WF_vars(CommandTimeout(Query(n)))

FairSpecBridge == SpecBridge /\ BridgeTimersFire

-----------------------------------------------------------------------------
(* ConsoleLogCollector (native messaging): the reconnection supervisor.     *)
(* One handler is a function on the record                                  *)
(*   st = [port, open, est, conn, att, timers, pend, delays, catches]       *)
(* where catches counts the rejected ping promises whose catch block in     *)
(* pingNativeHost has still to run (as microtasks, before any other event). *)

maxReconnectAttempts == 5
reconnectDelay == 2000
MaxBackoffDelay == 30000

\* delays are kept in units of 1/2^5 ms, so that 2000 * 1.5^n is an integer
DelayScale == 2 ^ maxReconnectAttempts

Min(a, b) == IF a <= b THEN a ELSE b

\* Math.min(this.reconnectDelay * Math.pow(1.5, attempts), 30000)
BackoffDelay(attempts) ==
    Min((reconnectDelay * DelayScale * (3 ^ attempts)) \div (2 ^ attempts),
        MaxBackoffDelay * DelayScale)

Ports == 1..MaxPorts
PingIds == 1..MaxPings

SupervisorNow ==
    [port |-> nativePort, open |-> openPorts, est |-> established,
     conn |-> isConnected, att |-> reconnectAttempts, timers |-> retryTimers,
     pend |-> xPending, delays |-> failDelays, catches |-> 0]

SupervisorCommit(st) ==
    /\ nativePort' = st.port
    /\ openPorts' = st.open
    /\ established' = st.est
    /\ isConnected' = st.conn
    /\ reconnectAttempts' = st.att
    /\ retryTimers' = st.timers
    /\ xPending' = st.pend
    /\ failDelays' = st.delays

RecordDelay(delays, d) == IF Len(delays) < MaxHistory THEN Append(delays, d) ELSE delays

\* if (this.reconnectAttempts < this.maxReconnectAttempts) { attempts++;
\* delay = ...; setTimeout(() => this.connectToNativeHost(), delay) }
ScheduleRetry(st) ==
    IF st.att < maxReconnectAttempts
    THEN [st EXCEPT !.att = @ + 1, !.timers = @ + 1,
                    !.delays = RecordDelay(@, BackoffDelay(st.att + 1))]
    ELSE st

\* pendingCommands.forEach(clearTimeout; reject); pendingCommands.clear()
RejectAllPings(st) ==
    [st EXCEPT !.pend = {}, !.catches = @ + Cardinality(st.pend)]

\* port.disconnect() on the extension's own side: no onDisconnect here
ClosePort(st, p) == [st EXCEPT !.open = @ \ {p}, !.est = @ \ {p}]

\* variant: the catch block leaves the port connected and in its slot
PingCatch_KeepPort(st) ==
    ScheduleRetry(RejectAllPings([st EXCEPT !.conn = FALSE]))

\* the catch block of pingNativeHost
PingCatch(st) ==
    LET s1 == [(IF st.port # 0 THEN ClosePort(st, st.port) ELSE st)
                  EXCEPT !.conn = FALSE, !.port = 0]
    IN  ScheduleRetry(RejectAllPings(s1))

\* run the queued catch blocks
RECURSIVE DrainCatches(_)
DrainCatches(st) ==
    IF st.catches = 0 THEN st
    ELSE DrainCatches(PingCatch([st EXCEPT !.catches = @ - 1]))

\* the onDisconnect listener that connectToNativeHost attaches to a port
OnDisconnect(st) ==
    ScheduleRetry(RejectAllPings([st EXCEPT !.conn = FALSE, !.port = 0]))

FreePort(st) == CHOOSE p \in Ports \ st.open : \A q \in Ports \ st.open : p <= q

\* variant: the attempt counter is not reset when connectNative returns
connectToNativeHost_NoReset(st, throws) ==
    IF throws
    THEN ScheduleRetry([st EXCEPT !.conn = FALSE, !.port = 0])
    ELSE LET p == FreePort(st)
         IN  [st EXCEPT !.port = p, !.open = @ \cup {p}, !.conn = TRUE]

\* connectToNativeHost: connectNative returns a port (the listeners are
\* attached, isConnected = true, reconnectAttempts = 0) or it throws
connectToNativeHost(st, throws) ==
    IF throws
    THEN ScheduleRetry([st EXCEPT !.conn = FALSE, !.port = 0])
    ELSE LET p == FreePort(st)
         IN  [st EXCEPT !.port = p, !.open = @ \cup {p}, !.conn = TRUE, !.att = 0]

\* the bounds of the model, as a guard on the state a handler leaves
WithinSupervisorBounds(st) == st.timers <= MaxRetryTimers

-----------------------------------------------------------------------------
(* ConsoleLogCollector: events *)

\* a reconnect timer fires: connectToNativeHost()
RetryTimerFires(throws) ==
    /\ UNCHANGED notSupervisor
    /\ retryTimers > 0
    /\ throws \/ openPorts # Ports
    /\ LET st == connectToNativeHost([SupervisorNow EXCEPT !.timers = @ - 1], throws)
       IN  WithinSupervisorBounds(st) /\ SupervisorCommit(st)
    /\ UNCHANGED frAwaiting
    /\ pingFailed' = FALSE
    /\ UNCHANGED <<pingIntervals, pingIntervalLive>>

\* the native host process of a fresh port is running: the connection works
HostStarts(p) ==
    /\ UNCHANGED notSupervisor
    /\ p \in openPorts \ established
    /\ established' = established \cup {p}
    /\ failDelays' = <<>>
    /\ UNCHANGED <<nativePort, openPorts, isConnected, reconnectAttempts, retryTimers,
                   xPending, frAwaiting>>
    /\ pingFailed' = FALSE
    /\ UNCHANGED <<pingIntervals, pingIntervalLive>>

\* a port is disconnected from the other end (the host could not be started,
\* or it exited): the port's onDisconnect listener runs, then the catch blocks
\* of the pings it rejected
PortDisconnects(p) ==
    /\ UNCHANGED notSupervisor
    /\ p \in openPorts
    /\ LET st == DrainCatches(OnDisconnect(ClosePort(SupervisorNow, p)))
       IN  WithinSupervisorBounds(st) /\ SupervisorCommit(st)
    /\ UNCHANGED frAwaiting
    /\ pingFailed' = FALSE
    /\ UNCHANGED <<pingIntervals, pingIntervalLive>>

HostMessageTypes == {"command", "mcp_client_connected", "host_shutting_down"}

\* handleNativeHostMessage: any message marks the connection live and resets
\* the attempts; pong and command_response resolve a pending entry
handleNativeHostMessage(st, type, id) ==
    LET s1 == [st EXCEPT !.conn = TRUE, !.att = 0]
    IN  IF type \in {"pong", "command_response"} /\ id \in st.pend
        THEN [s1 EXCEPT !.pend = @ \ {id}]
        ELSE IF type = "host_shutting_down" THEN [s1 EXCEPT !.conn = FALSE]
        ELSE s1

\* the native host sends a message on a port it serves
HostMessage(p, type) ==
    /\ UNCHANGED notSupervisor
    /\ p \in established
    /\ SupervisorCommit([handleNativeHostMessage(SupervisorNow, type, 0)
                            EXCEPT !.delays = <<>>])
    /\ UNCHANGED frAwaiting
    /\ pingFailed' = FALSE
    /\ UNCHANGED <<pingIntervals, pingIntervalLive>>

\* pingNativeHost up to its await: sendCommandToNativeHost('ping', ..., 5000)
PingNativeHost(id) ==
    /\ UNCHANGED notSupervisor
    /\ nativePort # 0
    /\ id \in PingIds \ xPending
    /\ xPending' = xPending \cup {id}
    /\ UNCHANGED <<nativePort, openPorts, established, isConnected, reconnectAttempts,
                   retryTimers, failDelays, frAwaiting>>
    /\ pingFailed' = FALSE
    /\ UNCHANGED <<pingIntervals, pingIntervalLive>>

\* the 5 s timeout of a ping: delete the entry, reject, run the catch block
PingTimeout(id) ==
    /\ UNCHANGED notSupervisor
    /\ id \in xPending
    /\ LET st == DrainCatches([SupervisorNow EXCEPT !.pend = @ \ {id}, !.catches = 1])
       IN  WithinSupervisorBounds(st) /\ SupervisorCommit(st)
    /\ UNCHANGED frAwaiting
    /\ pingFailed' = TRUE
    /\ UNCHANGED <<pingIntervals, pingIntervalLive>>

\* forceReconnect up to its first await (detachAllDebuggers)
\* clearInterval(this.pingInterval): the timer the handle names stops, if it
\* is still running
clearInterval(intervals, live) == IF live THEN intervals - 1 ELSE intervals

ForceReconnectStarts ==
    /\ UNCHANGED notSupervisor
    /\ frAwaiting < MaxForceReconnects
    /\ frAwaiting' = frAwaiting + 1
    /\ pingFailed' = FALSE
    /\ pingIntervals' = clearInterval(pingIntervals, pingIntervalLive)
    /\ pingIntervalLive' = FALSE
    /\ UNCHANGED <<nativePort, openPorts, established, isConnected, reconnectAttempts,
                   retryTimers, xPending, failDelays>>

\* forceReconnect after the await: disconnect, reset, reject, connect at once
forceReconnect(st, throws) ==
    LET s1 == [(IF st.port # 0 THEN ClosePort(st, st.port) ELSE st)
                  EXCEPT !.port = 0, !.conn = FALSE, !.att = 0, !.delays = <<>>]
    IN  DrainCatches(connectToNativeHost(RejectAllPings(s1), throws))

ForceReconnectResumes(throws) ==
    /\ UNCHANGED notSupervisor
    /\ frAwaiting > 0
    /\ frAwaiting' = frAwaiting - 1
    /\ pingFailed' = FALSE
    /\ pingIntervals < MaxIntervals
    /\ pingIntervals' = pingIntervals + 1
    /\ pingIntervalLive' = TRUE
    /\ throws \/ (openPorts \ {nativePort}) # Ports
    /\ LET st == forceReconnect(SupervisorNow, throws)
       IN  WithinSupervisorBounds(st) /\ SupervisorCommit(st)

NextSupervisor ==
    \/ \E throws \in BOOLEAN : RetryTimerFires(throws)
    \/ \E p \in Ports : HostStarts(p)
    \/ \E p \in Ports : PortDisconnects(p)
    \/ \E p \in Ports, type \in HostMessageTypes : HostMessage(p, type)
    \/ \E id \in PingIds : PingNativeHost(id)
    \/ \E id \in PingIds : PingTimeout(id)
    \/ ForceReconnectStarts
    \/ \E throws \in BOOLEAN : ForceReconnectResumes(throws)

SpecSupervisor == Init /\ [][NextSupervisor]_vars

-----------------------------------------------------------------------------
\* BrowserPilotClient (browser-pilot-client.ts), the native host broker it
\* talks to (part_002) and the extension behind the broker.
\*
\* A command is identified by the id sendCommand gives it (randomUUID: ids
\* never repeat).  A WebSocket of the client is identified by a number, which
\* is also the clientId the broker registers it under.  The frames the
\* broker writes to the extension about clients coming and going
\* (mcp_client_connected/mcp_client_disconnected) change nothing on either
\* side of this part and are not kept.

clientMaxReconnectAttempts == 5
Cmds == 1..MaxCmds
Sockets == 1..MaxSockets

\* what a sendCommand call asks for: a command the extension carries out, one
\* its handleCommand fails on, or params that JSON.stringify throws on
Kinds == {"good", "failing", "unserialisable"}

\* who called the resolve or the reject of a command's promise
ResponseSettles == {"response_resolve", "response_reject"}
RaceSettles == ResponseSettles \cup {"timeout", "connection_lost", "closed_by_client"}

Frame(type, id, sock) == [type |-> type, id |-> id, sock |-> sock]

NoneHandled == [type |-> "none", id |-> 0, pending |-> {}]

ClientNow ==
    [ws |-> ws, sock |-> sockState, connected |-> connected,
     att |-> cReconnectAttempts, rtimer |-> reconnectTimer, ctimers |-> connTimers,
     pend |-> cPending, timers |-> cTimers, phase |-> cmdPhase, await |-> cmdAwait,
     kind |-> cmdKind, settled |-> cSettled, out |-> toBroker]

ClientCommit(st) ==
    /\ ws' = st.ws
    /\ sockState' = st.sock
    /\ connected' = st.connected
    /\ cReconnectAttempts' = st.att
    /\ reconnectTimer' = st.rtimer
    /\ connTimers' = st.ctimers
    /\ cPending' = st.pend
    /\ cTimers' = st.timers
    /\ cmdPhase' = st.phase
    /\ cmdAwait' = st.await
    /\ cmdKind' = st.kind
    /\ cSettled' = st.settled
    /\ toBroker' = st.out

\* a call of resolve or reject of command c's promise; `of` is the id of the
\* response whose data it was given (0 for an Error)
SettleCmd(st, c, by, of) ==
    [st EXCEPT !.settled[c] = Append(@, [by |-> by, of |-> of])]

\* rejectAllPendingCommands without the clear() of the map and of the timers
rejectAllPendingCommands_NoClear(st, by) ==
    [st EXCEPT !.settled = [c \in Cmds |->
                   IF c \in st.pend /\ Len(st.settled[c]) < 3
                   THEN Append(st.settled[c], [by |-> by, of |-> 0])
                   ELSE st.settled[c]]]

rejectAllPendingCommands(st, by) ==
    [st EXCEPT !.timers = @ \ st.pend,
               !.settled = [c \in Cmds |->
                   IF c \in st.pend THEN Append(st.settled[c], [by |-> by, of |-> 0])
                   ELSE st.settled[c]],
               !.pend = {}]

scheduleReconnect(st) ==
    IF st.att < clientMaxReconnectAttempts
    THEN [st EXCEPT !.att = @ + 1, !.rtimer = TRUE]
    ELSE [st EXCEPT !.rtimer = FALSE]

\* ws.close(): a socket that is connecting or open starts closing
CloseSocket(st, s) ==
    IF s # 0 /\ st.sock[s] \in {"connecting", "open"}
    THEN [st EXCEPT !.sock[s] = "closing"]
    ELSE st

\* a socket number is free once its socket is closed and its connection timer
\* has fired or was cleared
FreeSockets(st) ==
    {s \in Sockets : st.sock[s] \in {"unused", "closed"} /\ s \notin st.ctimers}

NewSocket(st) == CHOOSE s \in FreeSockets(st) : \A t \in FreeSockets(st) : s <= t

ConnectReturnsTrue(st) == st.ws # 0 /\ st.sock[st.ws] = "open"

CanConnect(st) == ConnectReturnsTrue(st) \/ FreeSockets(st) # {}

\* the size of a run: the sendCommand calls made and the socket numbers used
Load(st) ==
    Cardinality({c \in Cmds : st.phase[c] # "idle"})
        + Cardinality({s \in Sockets : st.sock[s] # "unused"})

WithinLoad(st) == Load(st) <= MaxLoad

\* connect() that arms no connection timer
connect_NoTimer(st) ==
    IF ConnectReturnsTrue(st) THEN st
    ELSE LET s == NewSocket(st)
         IN [st EXCEPT !.ws = s, !.sock[s] = "connecting"]

\* connect(): nothing if this.ws is open, else a new WebSocket replaces
\* this.ws and its connection timer is armed
connect(st) ==
    IF ConnectReturnsTrue(st) THEN st
    ELSE LET s == NewSocket(st)
         IN [st EXCEPT !.ws = s, !.sock[s] = "connecting", !.ctimers = @ \cup {s}]

\* the promise executor of sendCommand
SendBody(st, c) ==
    IF st.ws = 0 \/ st.sock[st.ws] # "open"
    THEN SettleCmd([st EXCEPT !.phase[c] = "called", !.await[c] = 0],
                   c, "not_connected", 0)
    ELSE LET st1 == [st EXCEPT !.phase[c] = "called", !.await[c] = 0,
                               !.timers = @ \cup {c}, !.pend = @ \cup {c}]
         IN IF st.kind[c] = "unserialisable"
            THEN SettleCmd(st1, c, "send_error", 0)
            ELSE [st1 EXCEPT !.out = @ \cup {[id |-> c, sock |-> st.ws]}]

\* the sendCommand calls suspended at `await this.connect()` on socket s
Awaiting(st, s) == {c \in Cmds : st.phase[c] = "awaitConnect" /\ st.await[c] = s}

RECURSIVE ResumeAwaiting(_, _)
ResumeAwaiting(st, cs) ==
    IF cs = {} THEN st
    ELSE LET c == CHOOSE x \in cs : \A y \in cs : x <= y
         IN ResumeAwaiting(SendBody(st, c), cs \ {c})

RECURSIVE FailAwaiting(_, _)
FailAwaiting(st, cs) ==
    IF cs = {} THEN st
    ELSE LET c == CHOOSE x \in cs : \A y \in cs : x <= y
         IN FailAwaiting(SettleCmd([st EXCEPT !.phase[c] = "called", !.await[c] = 0],
                                   c, "connect_timeout", 0), cs \ {c})

\* what every step of this part other than handleMessage leaves behind
NothingHandled == lastHandled' = NoneHandled

\* sendCommand(command, params, timeout), in a run of size at most load
SendCommandWithin(c, kind, load) ==
    /\ UNCHANGED notClient
    /\ cmdPhase[c] = "idle"
    /\ \A d \in Cmds : d < c => cmdPhase[d] # "idle"
    /\ LET st0 == [ClientNow EXCEPT !.kind[c] = kind]
           st1 == IF st0.connected \/ ConnectReturnsTrue(st0)
                  THEN SendBody(st0, c)
                  ELSE [connect(st0) EXCEPT !.phase[c] = "awaitConnect",
                                            !.await[c] = NewSocket(st0)]
       IN /\ st0.connected \/ CanConnect(st0)
          /\ Load(st1) <= load
          /\ ClientCommit(st1)
    /\ NothingHandled
    /\ UNCHANGED <<mpcClients, extensionConnected, peerState, toPeer, toClient>>

\* sendCommand(command, params, timeout)
SendCommand(c, kind) == SendCommandWithin(c, kind, MaxLoad)

\* socket s opens: the broker's 'connection' handler registers the client and
\* sends the welcome frame, the client's 'open' handler runs and the
\* sendCommand calls awaiting this connect() go on
SocketOpens(s) ==
    /\ UNCHANGED notClient
    /\ sockState[s] = "connecting"
    /\ LET st1 == [ClientNow EXCEPT !.sock[s] = "open", !.ctimers = @ \ {s},
                                    !.connected = TRUE, !.att = 0]
       IN ClientCommit(ResumeAwaiting(st1, Awaiting(st1, s)))
    /\ NothingHandled
    /\ mpcClients' = mpcClients \cup {s}
    /\ toClient' = toClient \cup {Frame("connected", 0, s)}
    /\ UNCHANGED <<extensionConnected, peerState, toPeer>>

\* socket s is closed (a failed connection, a lost connection or the end of a
\* closing handshake): the client's 'close' handler and the broker's
SocketClosed(s) ==
    /\ UNCHANGED notClient
    /\ sockState[s] \in {"connecting", "open", "closing"}
    /\ LET st1 == [ClientNow EXCEPT !.sock[s] = "closed", !.connected = FALSE]
           st2 == rejectAllPendingCommands(st1, "connection_lost")
           st3 == scheduleReconnect(st2)
       IN ClientCommit([st3 EXCEPT !.out = {m \in @ : m.sock # s}])
    /\ NothingHandled
    /\ mpcClients' = mpcClients \ {s}
    /\ toClient' = {m \in toClient : m.sock # s}
    /\ UNCHANGED <<extensionConnected, peerState, toPeer>>

\* the connectionTimeout timer of the connect() call that created socket s
ConnTimeoutFires(s) ==
    /\ UNCHANGED notClient
    /\ s \in connTimers
    /\ LET st1 == [ClientNow EXCEPT !.ctimers = @ \ {s}]
           st2 == CloseSocket(st1, st1.ws)
       IN ClientCommit(FailAwaiting(st2, Awaiting(st2, s)))
    /\ NothingHandled
    /\ UNCHANGED <<mpcClients, extensionConnected, peerState, toPeer, toClient>>

\* the reconnect timer: this.connect().catch(() => {})
ReconnectTimerFires ==
    /\ UNCHANGED notClient
    /\ reconnectTimer
    /\ LET st1 == [ClientNow EXCEPT !.rtimer = FALSE]
       IN /\ CanConnect(st1)
          /\ WithinLoad(connect(st1))
          /\ ClientCommit(connect(st1))
    /\ NothingHandled
    /\ UNCHANGED <<mpcClients, extensionConnected, peerState, toPeer, toClient>>

\* close()
ClientClose ==
    /\ UNCHANGED notClient
    /\ LET st1 == [ClientNow EXCEPT !.rtimer = FALSE]
           st2 == rejectAllPendingCommands(st1, "closed_by_client")
           st3 == CloseSocket(st2, st2.ws)
       IN ClientCommit([st3 EXCEPT !.ws = 0, !.connected = FALSE])
    /\ NothingHandled
    /\ UNCHANGED <<mpcClients, extensionConnected, peerState, toPeer, toClient>>

\* the timeout timer of command c
ClientCommandTimeout(c) ==
    /\ UNCHANGED notClient
    /\ c \in cTimers
    /\ ClientCommit(SettleCmd([ClientNow EXCEPT !.timers = @ \ {c}, !.pend = @ \ {c}],
                              c, "timeout", 0))
    /\ NothingHandled
    /\ UNCHANGED <<mpcClients, extensionConnected, peerState, toPeer, toClient>>

\* pendingCommands.get that answers with the oldest entry, whatever the id
PendingGet_Oldest(pend, id) ==
    IF pend = {} THEN 0 ELSE CHOOSE c \in pend : \A d \in pend : c <= d

\* this.pendingCommands.get(commandId), 0 for undefined
PendingGet(pend, id) == IF id \in pend THEN id ELSE 0

\* message.data.success === false: the extension's handleCommand failed
ResponseFails(st, id) == st.kind[id] = "failing"

\* handleCommandResponse that settles without looking the id up
clientHandleCommandResponse_NoLookup(st, m) ==
    IF Len(st.settled[m.id]) < 3
    THEN SettleCmd([st EXCEPT !.timers = @ \ {m.id}, !.pend = @ \ {m.id}], m.id,
                   IF ResponseFails(st, m.id) THEN "response_reject"
                   ELSE "response_resolve", m.id)
    ELSE st

\* handleCommandResponse without the clearTimeout
clientHandleCommandResponse_KeepTimer(st, m) ==
    LET c == PendingGet(st.pend, m.id)
    IN IF c # 0
       THEN SettleCmd([st EXCEPT !.pend = @ \ {c}], c,
                      IF ResponseFails(st, m.id) THEN "response_reject"
                      ELSE "response_resolve", m.id)
       ELSE st

clientHandleCommandResponse(st, m) ==
    LET c == PendingGet(st.pend, m.id)
    IN IF c # 0
       THEN SettleCmd([st EXCEPT !.timers = @ \ {c}, !.pend = @ \ {c}], c,
                      IF ResponseFails(st, m.id) THEN "response_reject"
                      ELSE "response_resolve", m.id)
       ELSE st

\* handleMessage
handleMessage(st, m) ==
    CASE m.type = "connected" -> [st EXCEPT !.att = 0]
      [] m.type = "command_response" -> clientHandleCommandResponse(st, m)
      [] OTHER -> st

\* a frame from the broker reaches the client's 'message' handler; again: the
\* same command_response will be delivered once more
ClientHandles(m, again) ==
    /\ UNCHANGED notClient
    /\ m \in toClient
    /\ sockState[m.sock] \in {"open", "closing"}
    /\ again => m.type = "command_response"
    /\ ClientCommit(handleMessage(ClientNow, m))
    /\ lastHandled' = [type |-> m.type, id |-> m.id, pending |-> cPending]
    /\ toClient' = IF again THEN toClient ELSE toClient \ {m}
    /\ UNCHANGED <<mpcClients, extensionConnected, peerState, toPeer>>

\* ---- the broker ----

\* the broker's 'message' handler of a client socket
BrokerReceives(m) ==
    /\ UNCHANGED notClient
    /\ m \in toBroker
    /\ m.sock \in mpcClients
    /\ toBroker' = toBroker \ {m}
    /\ IF extensionConnected
       THEN /\ toPeer' = toPeer \cup {[id |-> m.id, source |-> m.sock]}
            /\ UNCHANGED toClient
       ELSE /\ toClient' = toClient \cup {Frame("error", m.id, m.sock)}
            /\ UNCHANGED toPeer
    /\ NothingHandled
    /\ UNCHANGED <<ws, sockState, connected, cReconnectAttempts, reconnectTimer,
                   connTimers, cPending, cTimers, cmdPhase, cmdAwait, cmdKind,
                   cSettled, mpcClients, extensionConnected, peerState>>

\* the extension's first message (extension_info) reaches handleExtensionMessage
ExtensionInfoArrives ==
    /\ UNCHANGED notClient
    /\ peerState = "starting"
    /\ peerState' = "up"
    /\ extensionConnected' = TRUE
    /\ NothingHandled
    /\ UNCHANGED <<ws, sockState, connected, cReconnectAttempts, reconnectTimer,
                   connTimers, cPending, cTimers, cmdPhase, cmdAwait, cmdKind,
                   cSettled, mpcClients, toBroker, toPeer, toClient>>

\* the extension's handleCommand answers command m with a command_response
\* that carries the command's id and, as target, its source; the broker's
\* handleExtensionMessage routes it to that client
handleExtensionMessage(m) ==
    /\ UNCHANGED notClient
    /\ m \in toPeer
    /\ peerState = "up"
    /\ toPeer' = toPeer \ {m}
    /\ extensionConnected' = TRUE
    /\ toClient' = IF m.source \in mpcClients /\ sockState[m.source] = "open"
                   THEN toClient \cup {Frame("command_response", m.id, m.source)}
                   ELSE toClient
    /\ NothingHandled
    /\ UNCHANGED <<ws, sockState, connected, cReconnectAttempts, reconnectTimer,
                   connTimers, cPending, cTimers, cmdPhase, cmdAwait, cmdKind,
                   cSettled, mpcClients, peerState, toBroker>>

\* the extension's port closes and the host reads the end of its stdin
handleExtensionDisconnect ==
    /\ UNCHANGED notClient
    /\ peerState \in {"starting", "up"}
    /\ peerState' = "gone"
    /\ toPeer' = {}
    /\ extensionConnected' = FALSE
    /\ toClient' = toClient \cup
           {Frame("extension_disconnected", 0, s) :
               s \in {t \in mpcClients : sockState[t] = "open"}}
    /\ NothingHandled
    /\ UNCHANGED <<ws, sockState, connected, cReconnectAttempts, reconnectTimer,
                   connTimers, cPending, cTimers, cmdPhase, cmdAwait, cmdKind,
                   cSettled, mpcClients, toBroker>>

NextClient ==
    \/ \E c \in Cmds, kind \in Kinds : SendCommand(c, kind)
    \/ \E s \in Sockets : SocketOpens(s)
    \/ \E s \in Sockets : SocketClosed(s)
    \/ \E s \in Sockets : ConnTimeoutFires(s)
    \/ ReconnectTimerFires
    \/ ClientClose
    \/ \E c \in Cmds : ClientCommandTimeout(c)
    \/ \E m \in toClient, again \in BOOLEAN : ClientHandles(m, again)
    \/ \E m \in toBroker : BrokerReceives(m)
    \/ ExtensionInfoArrives
    \/ \E m \in toPeer : handleExtensionMessage(m)
    \/ handleExtensionDisconnect

SpecClient == Init /\ [][NextClient]_vars

\* Timers that are armed fire: a command's timeout timer fires unless it is
\* cleared, and so does the connection timer of a connect() call.
TimersFire ==
    /\ \A c \in Cmds : WF_vars(ClientCommandTimeout(c))
    /\ \A s \in Sockets : WF_vars(ConnTimeoutFires(s))

FairSpecClient == SpecClient /\ TimersFire

\* The runs of the client in which two sendCommand calls each open a socket
\* of their own (the second one finds this.ws still CONNECTING), no timer
\* fires and the peer answers nothing.
NextClientSockets ==
    \/ \E c \in Cmds, kind \in Kinds : SendCommandWithin(c, kind, MaxSocketLoad)
    \/ \E s \in Sockets : SocketOpens(s)
    \/ \E s \in Sockets : SocketClosed(s)
    \/ \E m \in toClient, again \in BOOLEAN : ClientHandles(m, again)
    \/ \E m \in toBroker : BrokerReceives(m)
    \/ ExtensionInfoArrives
    \/ handleExtensionDisconnect

SpecClientSockets == Init /\ [][NextClientSockets]_vars

-----------------------------------------------------------------------------
\* readNativeMessages (part_002): the decoder of the length-prefixed frames
\* the extension's port writes to the host's stdin.
\*
\* A byte is a number 0..255.  A frame is a 4-byte little-endian length and
\* a body of that many bytes.  Bodies are written over the bytes '1' and 'x':
\* a body of digits is the JSON text of a number, any body with an 'x' is
\* not JSON.  A chunk is whatever prefix of the unread bytes one
\* process.stdin.read() returns.

ByteOne == 49
ByteX == 120
BodyBytes == {ByteOne, ByteX}

RECURSIVE BodiesOfLen(_)
BodiesOfLen(n) ==
    IF n = 0 THEN {<<>>}
    ELSE {Append(b, x) : b \in BodiesOfLen(n - 1), x \in BodyBytes}

Bodies == UNION {BodiesOfLen(n) : n \in 0..MaxBody}

\* headerBuffer.writeUInt32LE(length, 0)
UInt32LE(n) == <<n % 256, (n \div 256) % 256, (n \div 65536) % 256,
                 (n \div 16777216) % 256>>

\* buffer.readUInt32LE(0)
ReadUInt32LE(b) == b[1] + 256 * b[2] + 65536 * b[3] + 16777216 * b[4]

EncodeFrame(body) == UInt32LE(Len(body)) \o body

IsDigit(b) == b \in 48..57

\* JSON.parse(text) succeeds on a text over these bytes iff it is a number
ValidJson(body) ==
    /\ Len(body) > 0
    /\ \A i \in DOMAIN body : IsDigit(body[i])
    /\ Len(body) > 1 => body[1] # 48

RECURSIVE ParseJson(_)
ParseJson(body) ==
    IF Len(body) = 0 THEN 0
    ELSE 10 * ParseJson(SubSeq(body, 1, Len(body) - 1)) + (body[Len(body)] - 48)

DecoderNow == [buffer |-> buffer, expectedLength |-> expectedLength,
               delivered |-> delivered]

DecoderStart == [buffer |-> <<>>, expectedLength |-> 0, delivered |-> <<>>]

\* variant: a body that fails to parse is put back in front of the buffer
DeliverBody_PushBack(st, body) ==
    IF ValidJson(body)
    THEN [st EXCEPT !.delivered = Append(@, ParseJson(body))]
    ELSE [st EXCEPT !.buffer = body \o @]

\* try { handleExtensionMessage(JSON.parse(body)) } catch { log }
DeliverBody(st, body) ==
    IF ValidJson(body)
    THEN [st EXCEPT !.delivered = Append(@, ParseJson(body))]
    ELSE st

\* the inner while loop: process complete messages
RECURSIVE ProcessBuffer(_)
ProcessBuffer(st) ==
    IF Len(st.buffer) = 0 THEN st
    ELSE LET st1 == IF st.expectedLength = 0 /\ Len(st.buffer) >= 4
                    THEN [st EXCEPT !.expectedLength = ReadUInt32LE(st.buffer),
                                    !.buffer = SubSeq(@, 5, Len(@))]
                    ELSE st
             n == st1.expectedLength
         IN IF n > 0 /\ Len(st1.buffer) >= n
            THEN ProcessBuffer(
                   [DeliverBody([st1 EXCEPT !.buffer = SubSeq(@, n + 1, Len(@))],
                                SubSeq(st1.buffer, 1, n))
                      EXCEPT !.expectedLength = 0])
            ELSE st1

\* variant: a chunk replaces what was left in the buffer
ReadChunk_Forgetful(st, chunk) == ProcessBuffer([st EXCEPT !.buffer = chunk])

\* buffer = Buffer.concat([buffer, chunk]), then the inner loop
ReadChunk(st, chunk) == ProcessBuffer([st EXCEPT !.buffer = @ \o chunk])

\* the extension posts a message: its frame is appended to the pipe
PeerWrites(body) ==
    /\ UNCHANGED notFraming
    /\ Len(frames) < MaxFrames
    /\ frames' = Append(frames, body)
    /\ wire' = wire \o EncodeFrame(body)
    /\ UNCHANGED <<buffer, expectedLength, delivered, splitSeen, multiSeen>>

\* 'readable': process.stdin.read() returns the next k unread bytes
StdinReadable(k) ==
    /\ UNCHANGED notFraming
    /\ k \in 1..Len(wire)
    /\ LET st == ReadChunk(DecoderNow, SubSeq(wire, 1, k))
       IN /\ buffer' = st.buffer
          /\ expectedLength' = st.expectedLength
          /\ delivered' = st.delivered
          /\ splitSeen' = (splitSeen \/ Len(st.buffer) > 0 \/ st.expectedLength > 0)
          /\ multiSeen' = (multiSeen \/ Len(st.delivered) >= Len(delivered) + 2)
    /\ wire' = SubSeq(wire, k + 1, Len(wire))
    /\ UNCHANGED frames

NextFraming ==
    \/ \E body \in Bodies : PeerWrites(body)
    \/ \E k \in 1..MaxChunk : StdinReadable(k)

SpecFraming == Init /\ [][NextFraming]_vars

-----------------------------------------------------------------------------
(* The broker's client registry and router (part_002), with several clients *)

\* randomUUID: every connection gets an id no other connection has
ClientIds == 1..MaxClients

RoutedTypes == {"command_response", "navigation_event"}
PeerTypes == {"ping", "extension_info"} \cup RoutedTypes

\* what the extension may write: any type, with no target, with a falsy
\* target (0) or with the id of a connection, registered or not
\* the heartbeat of pingNativeHost, as sendCommandToNativeHost('ping', ...)
\* writes it: { type: 'command', id: commandId, data: { command, params } }
HeartbeatPing == [type |-> "command", id |-> "hb", data |-> [command |-> "ping"]]

PeerMessages ==
    {[type |-> t] : t \in PeerTypes} \cup
    {[type |-> t, target |-> x] : t \in PeerTypes, x \in 0..MaxClients} \cup
    {HeartbeatPing, [type |-> "ping", id |-> "hb"]}

\* what a client may write: bytes that are no JSON, JSON that is no object,
\* or a command that carries no source or a source of the client's choosing
ClientCommands ==
    {[type |-> "command", id |-> "cmd"]} \cup
    {[type |-> "command", id |-> "cmd", source |-> x] : x \in 0..MaxClients}

ClientData ==
    {[json |-> k, value |-> [type |-> "none"]] : k \in {"invalid", "scalar"}} \cup
    {[json |-> "object", value |-> v] : v \in ClientCommands}

\* message.source = clientId
StampSource_Keep(message, clientId) ==
    IF "source" \in DOMAIN message THEN message
    ELSE [f \in DOMAIN message \cup {"source"} |->
             IF f = "source" THEN clientId ELSE message[f]]

StampSource(message, clientId) ==
    [f \in DOMAIN message \cup {"source"} |->
        IF f = "source" THEN clientId ELSE message[f]]

Delivery(c, message) == [to |-> c, msg |-> message]

\* every registered client whose socket is OPEN is sent the message
broadcastToMpcClients(message) ==
    {Delivery(c, message) : c \in {d \in mpcClients : readyState[d] = "open"}}

\* message.target && ... : a missing target and a falsy one are alike
HasTarget(message) == "target" \in DOMAIN message /\ message.target # 0

RouteDefault_Broadcast(message) == broadcastToMpcClients(message)

\* variant: a message whose target is not registered is broadcast
RouteDefault_Fallback(message) ==
    IF HasTarget(message) /\ message.target \in mpcClients
    THEN IF readyState[message.target] = "open"
         THEN {Delivery(message.target, message)}
         ELSE {}
    ELSE broadcastToMpcClients(message)

\* the default branch of handleExtensionMessage
RouteDefault(message) ==
    IF HasTarget(message) /\ message.target \in mpcClients
    THEN IF readyState[message.target] = "open"
         THEN {Delivery(message.target, message)}
         ELSE {}
    ELSE IF ~HasTarget(message)
         THEN broadcastToMpcClients(message)
         ELSE {}

Running == ~exited

\* wsServer 'connection': register the client, welcome it, tell the extension
WsConnection(c) ==
    /\ UNCHANGED notRouter
    /\ Running
    /\ readyState[c] = "unused"
    /\ mpcClients' = mpcClients \cup {c}
    /\ readyState' = [readyState EXCEPT ![c] = "open"]
    /\ sentToClients' =
           {Delivery(c, [type |-> "connected", clientId |-> c,
                         extensionConnected |-> extensionConnected])}
    /\ sentToExtension' =
           IF extensionConnected
           THEN <<[type |-> "mcp_client_connected", clientId |-> c]>>
           ELSE <<>>
    /\ handled' = [op |-> "connection", client |-> c]
    /\ UNCHANGED <<extensionConnected, peerState, shuttingDown, exitTimer, exited,
                   shutdownNotice>>

\* ws 'message' of client c: parse, stamp the source, forward or answer with
\* an error; a parse error and the TypeError of assigning a property to a
\* value that is no object are caught and logged
WsMessage(c, data) ==
    /\ UNCHANGED notRouter
    /\ Running
    /\ readyState[c] = "open"
    /\ LET parsed == data.json = "object"
           message == StampSource(data.value, c)
       IN /\ sentToExtension' =
                 IF parsed /\ extensionConnected THEN <<message>> ELSE <<>>
          /\ sentToClients' =
                 IF parsed /\ ~extensionConnected
                 THEN {Delivery(c, [type |-> "error",
                                    message |-> "Extension not connected",
                                    originalMessage |-> message])}
                 ELSE {}
    /\ handled' = [op |-> "message", client |-> c, data |-> data]
    /\ UNCHANGED <<mpcClients, readyState, extensionConnected, peerState,
                   shuttingDown, exitTimer, exited, shutdownNotice>>

\* the closing handshake of client c's socket has begun: readyState is CLOSING
\* and the 'close' event has not been emitted yet
WsClosing(c) ==
    /\ UNCHANGED notRouter
    /\ Running
    /\ readyState[c] = "open"
    /\ readyState' = [readyState EXCEPT ![c] = "closing"]
    /\ handled' = [op |-> "closing", client |-> c]
    /\ sentToClients' = {}
    /\ sentToExtension' = <<>>
    /\ UNCHANGED <<mpcClients, extensionConnected, peerState, shuttingDown,
                   exitTimer, exited, shutdownNotice>>

\* ws 'error' of client c: the client is deleted; the socket is closed next
WsError(c) ==
    /\ UNCHANGED notRouter
    /\ Running
    /\ readyState[c] = "open"
    /\ mpcClients' = mpcClients \ {c}
    /\ readyState' = [readyState EXCEPT ![c] = "closing"]
    /\ handled' = [op |-> "error", client |-> c, before |-> mpcClients]
    /\ sentToClients' = {}
    /\ sentToExtension' = <<>>
    /\ UNCHANGED <<extensionConnected, peerState, shuttingDown, exitTimer, exited,
                   shutdownNotice>>

WsClose_Clear(registry, c) == {}

WsClose_Delete(registry, c) == registry \ {c}

\* ws 'close' of client c: delete it and tell the extension
WsClose(c) ==
    /\ UNCHANGED notRouter
    /\ Running
    /\ readyState[c] \in {"open", "closing"}
    /\ mpcClients' = WsClose_Delete(mpcClients, c)
    /\ readyState' = [readyState EXCEPT ![c] = "closed"]
    /\ sentToClients' = {}
    /\ sentToExtension' =
           IF extensionConnected
           THEN <<[type |-> "mcp_client_disconnected", clientId |-> c]>>
           ELSE <<>>
    /\ handled' = [op |-> "close", client |-> c, before |-> mpcClients]
    /\ UNCHANGED <<extensionConnected, peerState, shuttingDown, exitTimer, exited,
                   shutdownNotice>>

\* readNativeMessages hands a parsed message of the extension to
\* handleExtensionMessage
ExtensionMessage(message) ==
    /\ UNCHANGED notRouter
    /\ Running
    /\ peerState \in {"starting", "up"}
    /\ peerState' = "up"
    /\ extensionConnected' = TRUE
    /\ sentToExtension' =
           IF message.type = "ping"
           THEN <<[type |-> "pong", id |-> JsField(message, "id"),
                   mpcClientCount |-> Cardinality(mpcClients)]>>
           ELSE <<>>
    /\ sentToClients' =
           IF message.type \in {"ping", "extension_info"} THEN {}
           ELSE RouteDefault(message)
    /\ handled' = [op |-> "extension_message", message |-> message]
    /\ UNCHANGED <<mpcClients, readyState, shuttingDown, exitTimer, exited,
                   shutdownNotice>>

\* stdin 'end' or 'error': handleExtensionDisconnect
StdinEnd ==
    /\ UNCHANGED notRouter
    /\ Running
    /\ peerState \in {"starting", "up"}
    /\ peerState' = "gone"
    /\ extensionConnected' = FALSE
    /\ sentToClients' = broadcastToMpcClients([type |-> "extension_disconnected"])
    /\ sentToExtension' = <<>>
    /\ exited' = shuttingDown
    /\ handled' = [op |-> "stdin_end"]
    /\ UNCHANGED <<mpcClients, readyState, shuttingDown, exitTimer, shutdownNotice>>

ShutdownToExtension_Never(known, message) == <<>>

ShutdownToExtension(known, message) ==
    IF known THEN <<message>> ELSE <<>>

\* SIGINT or SIGTERM: gracefulShutdown
gracefulShutdown(signal) ==
    /\ UNCHANGED notRouter
    /\ Running
    /\ handled' = [op |-> "signal", signal |-> signal, again |-> shuttingDown]
    /\ IF shuttingDown
       THEN /\ sentToClients' = {}
            /\ sentToExtension' = <<>>
            /\ UNCHANGED <<shuttingDown, exitTimer, shutdownNotice>>
       ELSE LET message == [type |-> "host_shutting_down", signal |-> signal]
            IN /\ shuttingDown' = TRUE
               /\ sentToClients' = broadcastToMpcClients(message)
               /\ sentToExtension' =
                      ShutdownToExtension(extensionConnected, message)
               /\ exitTimer' = TRUE
               /\ shutdownNotice' =
                      [sent |-> TRUE, message |-> message,
                       registered |-> mpcClients,
                       open |-> {c \in mpcClients : readyState[c] = "open"},
                       peer |-> peerState,
                       toClients |-> sentToClients',
                       toExtension |-> sentToExtension']
    /\ UNCHANGED <<mpcClients, readyState, extensionConnected, peerState, exited>>

\* the 500 ms timer of gracefulShutdown: process.exit(0)
ExitTimeout ==
    /\ UNCHANGED notRouter
    /\ Running
    /\ exitTimer
    /\ exitTimer' = FALSE
    /\ exited' = TRUE
    /\ handled' = [op |-> "exit"]
    /\ sentToClients' = {}
    /\ sentToExtension' = <<>>
    /\ UNCHANGED <<mpcClients, readyState, extensionConnected, peerState,
                   shuttingDown, shutdownNotice>>

NextRouter ==
    \/ \E c \in ClientIds : WsConnection(c)
    \/ \E c \in ClientIds : \E data \in ClientData : WsMessage(c, data)
    \/ \E c \in ClientIds : WsClosing(c)
    \/ \E c \in ClientIds : WsError(c)
    \/ \E c \in ClientIds : WsClose(c)
    \/ \E message \in PeerMessages : ExtensionMessage(message)
    \/ StdinEnd
    \/ \E signal \in {"SIGINT", "SIGTERM"} : gracefulShutdown(signal)
    \/ ExitTimeout

SpecRouter == Init /\ [][NextRouter]_vars

-----------------------------------------------------------------------------
(* Properties of the navigation stability detector *)

\* the settle-deadline results a navigate command was resolved with
SettleResults(n) ==
    {bSettled[Nav(n)][i].result.data : i \in
        {j \in 1..Len(bSettled[Nav(n)]) :
            bSettled[Nav(n)][j].by \in {"settle_query", "settle_fallback"}}}

\* the event log is Started followed by UrlChanged events only
StartedThenUrlChanges(events) ==
    /\ Len(events) >= 1
    /\ events[1].event = "navigation_started"
    /\ \A i \in 2..Len(events) : events[i].event = "url_changed"

UrlsOfEvents(events) == [i \in 1..(Len(events) - 1) |-> events[i + 1].url]

RECURSIVE CollapseConsecutive(_)
CollapseConsecutive(s) ==
    IF Len(s) <= 1 THEN s
    ELSE IF s[1] = s[2] THEN CollapseConsecutive(Tail(s))
    ELSE <<s[1]>> \o CollapseConsecutive(Tail(s))

\* C10: for Started(A), UrlChanged u1..un and silence, the settle-deadline
\* result has redirectChain = A, u1..un with consecutive duplicates collapsed,
\* finalUrl = the chain's last element and redirectCount = chain length - 1.
C10_SettleResult ==
    \A n \in NavIds : \A r \in SettleResults(n) :
        StartedThenUrlChanges(navState[n].events) =>
            LET expected == CollapseConsecutive(<<navUrl[n]>> \o
                                                UrlsOfEvents(navState[n].events))
            IN  /\ r.redirectChain = expected
                /\ r.finalUrl = Last(expected)
                /\ r.redirectCount = Len(expected) - 1

\* Started A, UrlChanged B, UrlChanged C settles as [A,B,C], 2, C
C10_Witness ==
    \E n \in NavIds : \E r \in SettleResults(n) :
        /\ StartedThenUrlChanges(navState[n].events)
        /\ UrlsOfEvents(navState[n].events) = <<"B", "C">>
        /\ r.redirectChain = <<"A", "B", "C">>
        /\ r.redirectCount = 2
        /\ r.finalUrl = "C"

-----------------------------------------------------------------------------
(* Properties of the reconnection supervisor *)

\* C7: at most one native-host port is open (held or left open) at any time.
C7_AtMostOneOpenPort == Cardinality(openPorts) <= 1

\* C8: over consecutive connection failures, each scheduled retry delay is at
\* least 1.5 times the previous one, until the 30 s cap is reached.
C8_DelaysGrow ==
    \A i \in 2..Len(failDelays) :
        i <= maxReconnectAttempts =>
            \/ 2 * failDelays[i] >= 3 * failDelays[i - 1]
            \/ failDelays[i] = MaxBackoffDelay * DelayScale

\* C9: when every connection attempt fails, at most maxReconnectAttempts
\* automatic retries are ever scheduled.
C9_RetriesBounded == Len(failDelays) <= maxReconnectAttempts

-----------------------------------------------------------------------------
\* Properties of BrowserPilotClient.sendCommand and its pending commands

SettledBy(c, bys) == {i \in DOMAIN cSettled[c] : cSettled[c][i].by \in bys}

\* C1: whatever the interleaving of a command's response, duplicates of it,
\* its timeout, the closing of the transport and close(), at most one of them
\* calls the resolve or the reject of the command's promise.
C1_SettledAtMostOnce ==
    \A c \in Cmds : Cardinality(SettledBy(c, RaceSettles)) <= 1

\* the response of a command was handled after its timeout had rejected it
C1_Witness ==
    \E c \in Cmds :
        /\ lastHandled.type = "command_response"
        /\ lastHandled.id = c
        /\ cSettled[c] = <<[by |-> "timeout", of |-> 0]>>

\* C2: every sendCommand call is eventually settled and then has no entry in
\* pendingCommands, whatever the broker, the extension and the sockets do.
C2_EventuallySettled ==
    \A c \in Cmds :
        (cmdPhase[c] # "idle") ~> (Len(cSettled[c]) > 0 /\ c \notin cPending)

\* a command the extension never answered, settled by its timeout alone
C2_Witness ==
    \E c \in Cmds :
        /\ peerState = "gone"
        /\ cmdPhase[c] = "called"
        /\ c \notin cPending
        /\ SettledBy(c, {"timeout"}) # {}
        /\ lastHandled.type = "none"

\* C3: a promise settled by a command_response is settled by the response
\* that carries the id of its own command, and the id is no longer a key of
\* pendingCommands.
C3_ResponseMatches ==
    \A c \in Cmds : \A i \in SettledBy(c, ResponseSettles) :
        cSettled[c][i].of = c /\ c \notin cPending

\* of two pending commands, the response of one has settled that one, and the
\* other is still pending
C3_Witness ==
    \E c \in Cmds, d \in Cmds :
        /\ c # d
        /\ lastHandled.type = "command_response"
        /\ lastHandled.id = c
        /\ {c, d} \subseteq lastHandled.pending
        /\ d \in cPending
        /\ cSettled[c] = <<[by |-> "response_resolve", of |-> c]>>

\* C4: once the client has handled the broker's "Extension not connected"
\* error for a command, that command is no longer pending.
C4_ErrorRejects ==
    lastHandled.type = "error" => lastHandled.id \notin cPending

\* C5: once the client has handled the broker's extension_disconnected
\* notice, none of the commands that were pending is still pending.
C5_PeerLossRejectsAll ==
    lastHandled.type = "extension_disconnected"
        => lastHandled.pending \cap cPending = {}

\* C6: handling a command_response whose id is not a key of pendingCommands
\* changes neither the map, nor a timer, nor any promise.
C6_LateResponseNoOp ==
    [][(/\ lastHandled'.type = "command_response"
        /\ lastHandled'.id \notin lastHandled'.pending)
           => UNCHANGED <<cPending, cTimers, cSettled>>]_vars

\* a second copy of a response was handled after the first had resolved the
\* command
C6_Witness ==
    \E c \in Cmds :
        /\ lastHandled.type = "command_response"
        /\ lastHandled.id = c
        /\ c \notin lastHandled.pending
        /\ cSettled[c] = <<[by |-> "response_resolve", of |-> c]>>

\* the commands whose frame sendCommand has handed to the socket
Issued == {c \in Cmds : cmdPhase[c] = "called" /\ cmdKind[c] \in {"good", "failing"}
                            /\ (c \in cPending \/ cSettled[c] # <<>>)
                            /\ SettledBy(c, {"not_connected"}) = {}}

\* C16: the timeout of an issued command is armed only while the command is
\* pending and unsettled, so when it fires it is what rejects the promise,
\* and it removes the command's entry; once a response has settled the
\* command its timeout is cleared and no timeout rejection ever follows.
C16_TimeoutOrResponse ==
    \A c \in Issued :
        /\ c \in cTimers => (c \in cPending /\ cSettled[c] = <<>>)
        /\ SettledBy(c, {"timeout"}) # {} =>
               /\ cSettled[c][1].by = "timeout"
               /\ c \notin cPending
               /\ c \notin cTimers
        /\ (cSettled[c] # <<>> /\ cSettled[c][1].by \in ResponseSettles) =>
               /\ c \notin cTimers
               /\ c \notin cPending
               /\ SettledBy(c, {"timeout"}) = {}

\* one command was rejected by its timeout and its entry is gone, another
\* was resolved by its response and its timeout is cleared
C16_Witness ==
    \E c, d \in Issued :
        /\ cSettled[c] = <<[by |-> "timeout", of |-> 0]>>
        /\ c \notin cPending
        /\ cSettled[d] = <<[by |-> "response_resolve", of |-> d]>>
        /\ d \notin cTimers

-----------------------------------------------------------------------------
\* Properties of every navigation result

WellFormedResult(d) ==
    /\ Len(d.redirectChain) >= 1
    /\ d.redirectChain[1] = d.requestedUrl
    /\ \A i \in 1..(Len(d.redirectChain) - 1) :
           d.redirectChain[i] # d.redirectChain[i + 1]
    /\ Last(d.redirectChain) = d.finalUrl
    /\ d.redirectCount = Len(d.redirectChain) - 1

\* what the settle step may be handed as currentState: null, the response
\* data of get_current_url, or an object with the tab's url
CurrentStates ==
    {Null, ErrorResponse("No active tab")}
    \cup {SuccessResponse(CurrentUrlResult(u)) : u \in Urls}
    \cup {CurrentUrlResult(u) : u \in Urls}

\* C17: every result the settle step resolves a navigation with, and every
\* result buildNavigationResult would give for the events received so far
\* and any outcome of the URL query, has a non-empty redirectChain that
\* starts with requestedUrl, has no two equal neighbours and ends with
\* finalUrl, and redirectCount = length of the chain - 1.
C17_ResultWellFormed ==
    \A n \in NavIds :
        /\ \A d \in SettleResults(n) : WellFormedResult(d)
        /\ navState[n].requestedUrl # Undefined =>
               \A cs \in CurrentStates :
                   WellFormedResult(buildNavigationResult(navState[n], cs).data)

\* a navigation was settled after status events only: its finalUrl is the
\* last event's URL, which the chain got as its last element
C17_Witness ==
    \E n \in NavIds :
        /\ Len(navState[n].events) = 3
        /\ \A i \in 2..3 : navState[n].events[i].event = "status_changed"
        /\ \E d \in SettleResults(n) :
               /\ d.redirectChain = <<"A", "C">>
               /\ d.finalUrl = "C"
               /\ d.redirectCount = 1

-----------------------------------------------------------------------------
\* Properties of the navigation error path

HasError(n) ==
    \E i \in DOMAIN navState[n].events :
        navState[n].events[i].event = "navigation_error"

SettleKinds == {"settle_query", "settle_fallback"}

-----------------------------------------------------------------------------
\* Properties of the frame decoder

NoEmptyFrame == \A i \in DOMAIN frames : Len(frames[i]) > 0

IsPrefix(s, t) == Len(s) <= Len(t) /\ s = SubSeq(t, 1, Len(s))

\* the decoder fed with every frame in a chunk of its own
RECURSIVE OwnChunks(_, _)
OwnChunks(st, fs) ==
    IF fs = <<>> THEN st
    ELSE OwnChunks(ReadChunk(st, EncodeFrame(Head(fs))), Tail(fs))

\* the messages of the well-formed frames, in order
RECURSIVE WellFormedMessages(_)
WellFormedMessages(fs) ==
    IF fs = <<>> THEN <<>>
    ELSE (IF ValidJson(Head(fs)) THEN <<ParseJson(Head(fs))>> ELSE <<>>)
             \o WellFormedMessages(Tail(fs))

\* C12: however the bytes of a sequence of frames with non-empty bodies are
\* cut into chunks, the decoder never delivers anything but a prefix of what
\* it delivers when every frame comes in a chunk of its own, and once all
\* bytes are read it is in exactly the same state.
C12_ChunkingIndependent ==
    NoEmptyFrame =>
        LET own == OwnChunks(DecoderStart, frames)
        IN /\ IsPrefix(delivered, own.delivered)
           /\ wire = <<>> => DecoderNow = own

\* three messages read in chunks that cut a frame and that held two messages
C12_Witness ==
    /\ wire = <<>>
    /\ Len(frames) = 3
    /\ \A i \in DOMAIN frames : ValidJson(frames[i])
    /\ splitSeen
    /\ multiSeen
    /\ Len(delivered) = 3

\* C13: a frame whose body is not JSON delivers nothing and consumes exactly
\* its own bytes: once all bytes are read, the messages delivered are those
\* of the well-formed frames, in order, and the decoder waits for a prefix.
C13_MalformedDropped ==
    (NoEmptyFrame /\ wire = <<>>) =>
        /\ delivered = WellFormedMessages(frames)
        /\ buffer = <<>>
        /\ expectedLength = 0

\* a malformed frame followed by a well-formed one, which was delivered
C13_Witness ==
    /\ wire = <<>>
    /\ Len(frames) = 2
    /\ Len(frames[1]) > 0
    /\ ~ValidJson(frames[1])
    /\ ValidJson(frames[2])
    /\ delivered = <<ParseJson(frames[2])>>

-----------------------------------------------------------------------------
(* Properties of the broker's registry and router *)

\* the handler that ran last is handleExtensionMessage, on a message of a
\* type it routes to clients
RoutedLast ==
    /\ handled.op = "extension_message"
    /\ handled.message.type \in RoutedTypes

OpenRegistered == {c \in mpcClients : readyState[c] = "open"}

\* C14: a routed message of the extension that names a registered client in
\* target is sent to that client alone, and is sent at all only if that
\* client's socket is open; a routed message with no target is sent to every
\* registered client whose socket is open, and to nobody else.
C14_RoutedToTargetOrAll ==
    RoutedLast =>
        LET m == handled.message
        IN /\ (HasTarget(m) /\ m.target \in mpcClients) =>
                  sentToClients = IF readyState[m.target] = "open"
                                  THEN {Delivery(m.target, m)}
                                  ELSE {}
           /\ "target" \notin DOMAIN m =>
                  sentToClients = {Delivery(c, m) : c \in OpenRegistered}

\* three clients are registered with open sockets and a response that names
\* one of them has been sent to it alone
C14_Witness ==
    /\ RoutedLast
    /\ Cardinality(OpenRegistered) = 3
    /\ HasTarget(handled.message)
    /\ sentToClients = {Delivery(handled.message.target, handled.message)}

\* C14 as stated: the registered client named in target is sent the message,
\* and a message without target is sent to every registered client, whatever
\* the state of their sockets
C14_AsStated ==
    RoutedLast =>
        LET m == handled.message
        IN /\ (HasTarget(m) /\ m.target \in mpcClients) =>
                  sentToClients = {Delivery(m.target, m)}
           /\ "target" \notin DOMAIN m =>
                  sentToClients = {Delivery(c, m) : c \in mpcClients}

\* the extension's handleCommand answers a command with a command_response
\* whose target is the command's source
CommandResponse(message) ==
    [type |-> "command_response", id |-> message.id, target |-> message.source]

OthersBefore(c) == handled.before \ {c}

\* C18: when a client's connection closes, the registry loses that client
\* and no other; every other connection is as it was, so a message that
\* names another client whose socket is open is still sent to it, and a
\* broadcast still reaches every other client whose socket is open.
C18_CloseRemovesOnlyThatClient ==
    handled.op = "close" =>
        /\ mpcClients = handled.before \ {handled.client}
        /\ \A m \in PeerMessages :
               (m.type \in RoutedTypes /\ HasTarget(m) /\ m.target \in OpenRegistered) =>
                   RouteDefault(m) = {Delivery(m.target, m)}
        /\ \A m \in PeerMessages :
               (m.type \in RoutedTypes /\ "target" \notin DOMAIN m) =>
                   {d.to : d \in RouteDefault(m)} =
                       {c \in OthersBefore(handled.client) : readyState[c] = "open"}

\* three clients were registered, one has closed and the other two are
\* registered with open sockets
C18_Witness ==
    /\ handled.op = "close"
    /\ Cardinality(handled.before) = 3
    /\ handled.client \in handled.before
    /\ Cardinality(OpenRegistered) = 2

\* C19: the first SIGINT or SIGTERM makes the broker send host_shutting_down
\* to every registered client whose socket is open and, if the extension has
\* been heard from and its pipe has not ended, to the extension; the process
\* does not exit before these sends.
C19_ShutdownNotice ==
    /\ exited => shutdownNotice.sent
    /\ shuttingDown <=> shutdownNotice.sent
    /\ shutdownNotice.sent =>
           /\ shutdownNotice.toClients =
                  {Delivery(c, shutdownNotice.message) : c \in shutdownNotice.open}
           /\ shutdownNotice.peer = "up" =>
                  shutdownNotice.toExtension = <<shutdownNotice.message>>

\* the process has exited after a signal that found two clients with open
\* sockets and the extension connected, and all three were notified
C19_Witness ==
    /\ exited
    /\ shutdownNotice.sent
    /\ Cardinality(shutdownNotice.open) >= 2
    /\ Cardinality(shutdownNotice.toClients) >= 2
    /\ shutdownNotice.peer = "up"
    /\ shutdownNotice.toExtension = <<shutdownNotice.message>>

\* C19 as stated: every registered client is sent host_shutting_down, and so
\* is the extension whenever its pipe is open
C19_AsStated ==
    shutdownNotice.sent =>
        /\ shutdownNotice.toClients =
               {Delivery(c, shutdownNotice.message) : c \in shutdownNotice.registered}
        /\ shutdownNotice.peer \in {"starting", "up"} =>
               shutdownNotice.toExtension = <<shutdownNotice.message>>

-----------------------------------------------------------------------------
\* Properties of the settle timer

\* the step is handleNavigationEvent appending an event other than an error
\* to the log of navigation n, which was active before
LaterEvent(n) ==
    /\ n \in activeNavigations
    /\ Len(navState'[n].events) = Len(navState[n].events) + 1
    /\ Last(navState'[n].events).event # "navigation_error"

-----------------------------------------------------------------------------
\* Properties of a navigate command sent through BrowserPilotClient

\* C21: a navigate command is not resolved by the extension's immediate
\* command_response.  BrowserPilotClient treats every command alike and its
\* handleNavigationEvent only logs, so a command that handleCommand answers
\* with success (navigate_to_url, once chrome.tabs.update has returned) stands
\* for the navigation: its promise is never resolved by that response.
C21_NavigateWaitsForSettle ==
    \A c \in Cmds :
        cmdKind[c] = "good" => SettledBy(c, {"response_resolve"}) = {}

-----------------------------------------------------------------------------
\* Properties of the settle-time query

\* the get_current_url query succeeded: the settle step was handed the
\* extension's success response, whose result names the tab's URL
QuerySucceeded(d) ==
    /\ d.currentState # Null
    /\ JsField(d.currentState, "success") = TRUE

\* C22: when the settle-time query succeeds, finalUrl of the result is the
\* URL the extension reported.
C22_FinalUrlIsReported ==
    \A n \in NavIds : \A d \in SettleResults(n) :
        QuerySucceeded(d) => d.finalUrl = d.currentState.data.url

\* C23: no URL occurs twice in the redirectChain of a navigation result.
C23_ChainDistinct ==
    \A n \in NavIds : \A d \in SettleResults(n) :
        \A i, j \in DOMAIN d.redirectChain :
            i # j => d.redirectChain[i] # d.redirectChain[j]

-----------------------------------------------------------------------------
\* Properties of forceReconnect and of the attempt counter

\* C24: a force-reconnect whose connectNative call returns a port leaves the
\* attempt counter at 0, no pending command, and the new port connected,
\* whatever the state it was issued in.
C24_ForceReconnectConnects ==
    [][ForceReconnectResumes(FALSE) =>
           /\ reconnectAttempts' = 0
           /\ xPending' = {}
           /\ nativePort' # 0
           /\ nativePort' \in openPorts'
           /\ isConnected']_vars

\* C25: the reconnect attempt counter is back at 0 after every inbound
\* message handleMessage has parsed and handled, whatever its type.
C25_ResetOnEveryMessage ==
    lastHandled.type # "none" => cReconnectAttempts = 0

\* C26: when the held port is disconnected with the attempt counter at
\* n < maxReconnectAttempts (and no ping in flight), the retry is scheduled
\* after min(2000 * 1.5^n, 30000) ms and the counter becomes n + 1; with
\* n = 0 the delay is the base delay of 2000 ms.
C26_RetryAfterBackoff ==
    [][\A p \in Ports :
          (/\ PortDisconnects(p)
           /\ p = nativePort
           /\ xPending = {}
           /\ reconnectAttempts < maxReconnectAttempts)
          => /\ reconnectAttempts' = reconnectAttempts + 1
             /\ failDelays' # <<>>
             /\ failDelays'[Len(failDelays')] = BackoffDelay(reconnectAttempts)]_vars

\* C27: when the pong of a heartbeat ping is missed, the step that handles the
\* timeout disconnects the held port, clears the port slot and rejects every
\* pending command, and it opens no port: the new connection attempt is left
\* to the retry timer it arms.
C27_TeardownBeforeReconnect ==
    [][\A id \in PingIds :
          PingTimeout(id) =>
              /\ nativePort' = 0
              /\ nativePort \notin openPorts'
              /\ xPending' = {}
              /\ openPorts' \subseteq openPorts]_vars

C27_Witness ==
    /\ pingFailed
    /\ openPorts = {}
    /\ xPending = {}
    /\ retryTimers > 0

\* C28: a single missed pong on a connected supervisor (no failure counted so
\* far) leaves the transport in place: the port stays open and in its slot,
\* and only a further failure disconnects it.
C28_MissedPongKeepsTransport ==
    [][\A id \in PingIds :
          (/\ PingTimeout(id)
           /\ isConnected
           /\ nativePort # 0
           /\ reconnectAttempts = 0)
          => /\ nativePort' = nativePort
             /\ nativePort' \in openPorts']_vars

\* C29: the state of a navigation is created by a navigation_started event
\* only, and any other navigation event for an id that has no state is
\* dropped: it creates no state, arms no timer and settles no command.
C29_AttemptOnlyAfterStarted ==
    [][\A n \in NavIds :
          /\ (n \notin activeNavigations /\ n \in activeNavigations')
                 => DeliverStarted(n)
          /\ (/\ n \notin activeNavigations
              /\ \/ DeliverNavError(n)
                 \/ \E kind \in EventKinds, url \in Urls : DeliverNavEvent(n, kind, url))
                 => UNCHANGED <<activeNavigations, navState, stabilityTimer,
                                timerArms, bPending, bTimers, bSettled>>]_vars

C29_Witness ==
    \E n \in NavIds :
        /\ navPhase[n] = "errored"
        /\ timerArms[n] = 0
        /\ n \notin activeNavigations
        /\ n \notin stabilityTimer
        /\ Nav(n) \in bPending
        /\ bSettled[Nav(n)] = <<>>

\* C30: the host answers the heartbeat ping of the extension with a pong that
\* carries the id of the ping.
C30_HeartbeatAnswered ==
    (handled.op = "extension_message" /\ handled.message = HeartbeatPing) =>
        \E i \in DOMAIN sentToExtension :
            /\ sentToExtension[i].type = "pong"
            /\ sentToExtension[i].id = HeartbeatPing.id

\* sendNavigationEvent(commandId, eventData) for the command the broker has
\* forwarded: { type: 'navigation_event', commandId, data }, with no target
NavigationEvent(message) ==
    [type |-> "navigation_event", commandId |-> message.id]

\* C31: a navigation event the extension emits for a client's command is
\* routed by the broker to the client that issued the command and to no
\* other registered client.
C31_NoNavigationCrossTalk ==
    handled.op = "message" =>
        \A i \in DOMAIN sentToExtension :
            \A d \in RouteDefault(NavigationEvent(sentToExtension[i])) :
                d.to = handled.client

C33_NavigateSettledOnce ==
    \A n \in NavIds : Len(bSettled[Nav(n)]) <= 1

\* the navigate command was settled by an error event or by its timeout while
\* the query was in flight, and the query has completed since
C33_Witness ==
    \E n \in NavIds :
        /\ Len(bSettled[Nav(n)]) = 1
        /\ bSettled[Nav(n)][1].by \in {"navigation_error", "timeout"}
        /\ bSettled[Query(n)] # <<>>
        /\ n \notin activeNavigations

\* C34: every navigation state that is created is removed from
\* activeNavigations again, whether the query of the settle step succeeds,
\* fails or times out and whether or not the navigate command is still pending.
C34_AttemptDestroyed ==
    \A n \in NavIds : (n \in activeNavigations) ~> (n \notin activeNavigations)

\* a navigation state was created, the navigate command timed out, the query
\* of the settle step timed out as well, and the state has been removed
C34_Witness ==
    \E n \in NavIds :
        /\ timerArms[n] > 0
        /\ n \notin activeNavigations
        /\ bSettled[Nav(n)] # <<>>
        /\ bSettled[Nav(n)][1].by = "timeout"
        /\ bSettled[Query(n)] # <<>>
        /\ bSettled[Query(n)][1].by = "timeout"

\* C35: while this.ws is null, as close() leaves it until connect() runs
\* again, no reconnect timer is pending.
C35_StaysClosed == ws = 0 => ~reconnectTimer

\* C36: the client has at most one WebSocket that is connecting or open.
C36_OneConnection ==
    Cardinality({s \in Sockets : sockState[s] \in {"connecting", "open"}}) <= 1

\* C37: a frame whose length prefix is 0 delivers nothing and does not hold
\* the decoder up: once all bytes written have been read, the messages of the
\* well-formed frames, those after an empty frame included, are delivered.
C37_EmptyFrameNoStall ==
    wire = <<>> => delivered = WellFormedMessages(frames)

\* C38: every id in pendingCommands belongs to a command whose promise is
\* not settled and whose timeout timer is armed.
C38_PendingAreUnsettled ==
    \A c \in cPending : cSettled[c] = <<>> /\ c \in cTimers

\* C39: at most one heartbeat interval timer is running at any time.
C39_OneHeartbeatTimer == pingIntervals <= 1

=============================================================================
